---------------------------- MODULE Spec2Model ----------------------------
(***************************************************************************)
(* Cross-window exchange between the frame analyzer (parent) and the steel *)
(* selector (child): openSteelSelector and sendDataToParent.               *)
(*                                                                         *)
(* JavaScript values are records [t, k, n, s]:                             *)
(*   t  the typeof tag ("undefined", "null" for the null value, "number",  *)
(*      "string", "object"),                                               *)
(*   k  for a number "fin", "nan", "inf" or "ninf"; for an object "plain"  *)
(*      or "circular"; "" otherwise,                                       *)
(*   n  for a finite number its value counted in halves (n = 5 is 2.5),    *)
(*   s  for a string its characters, a sequence of one-character strings.  *)
(*                                                                         *)
(* Three specifications share the actions:                                 *)
(*   Spec           the system: windows opened, loaded and closed, calls   *)
(*                  of both functions in any order,                        *)
(*   SpecPublisher  one call of sendDataToParent, its arguments and the    *)
(*                  state it runs in drawn from wider sets,                *)
(*   SpecLauncher   one call of openSteelSelector and its liveness check,  *)
(*                  likewise.                                              *)
(***************************************************************************)
EXTENDS Integers, Sequences, FiniteSets

\* ------------------------------------------------------------- bounds
\* largest member index the parent passes to openSteelSelector
MaxIndex == 2
\* largest instant new Date().getTime() returns
MaxTime == 1
\* liveness timers that can be pending on one window at a time
MaxTimers == 1

\* ---------------------------------------------------------- JS values
Undefined == [t |-> "undefined", k |-> "", n |-> 0, s |-> <<>>]
Null == [t |-> "null", k |-> "", n |-> 0, s |-> <<>>]
Halves(h) == [t |-> "number", k |-> "fin", n |-> h, s |-> <<>>]
Number(i) == Halves(2 * i)
NaN == [t |-> "number", k |-> "nan", n |-> 0, s |-> <<>>]
Infinity == [t |-> "number", k |-> "inf", n |-> 0, s |-> <<>>]
NegInfinity == [t |-> "number", k |-> "ninf", n |-> 0, s |-> <<>>]
Str(cs) == [t |-> "string", k |-> "", n |-> 0, s |-> cs]
PlainObject == [t |-> "object", k |-> "plain", n |-> 0, s |-> <<>>]
CircularObject == [t |-> "object", k |-> "circular", n |-> 0, s |-> <<>>]

\* typeof v === 'number'
IsNumber(v) == v.t = "number"
\* Number.isFinite(v)
IsFinite(v) == v.t = "number" /\ v.k = "fin"
\* Number.isNaN(v)
IsNaN(v) == v.t = "number" /\ v.k = "nan"
\* a number with an integral value
IsInteger(v) == IsFinite(v) /\ v.n % 2 = 0
\* the relational operator  v < 0  on a number (false for NaN)
LessThanZero(v) == (v.k = "fin" /\ v.n < 0) \/ v.k = "ninf"
\* ToBoolean: the falsy values are undefined, null, 0, NaN and ''
Truthy(v) ==
    CASE v.t = "undefined" -> FALSE
      [] v.t = "null" -> FALSE
      [] v.t = "number" -> ~(v.k = "nan" \/ (v.k = "fin" /\ v.n = 0))
      [] v.t = "string" -> v.s # <<>>
      [] OTHER -> TRUE

Abs(i) == IF i < 0 THEN -i ELSE i
\* Math.trunc on a finite number: toward zero
MathTrunc(v) ==
    IF v.n < 0 THEN Number(-(Abs(v.n) \div 2)) ELSE Number(v.n \div 2)

\* ------------------------------------------------------------ strings
DigitChars == <<"0", "1", "2", "3", "4", "5", "6", "7", "8", "9">>
IsDigit(c) == \E i \in 1..10 : DigitChars[i] = c
DigitValue(c) == (CHOOSE i \in 1..10 : DigitChars[i] = c) - 1
IsWhiteSpace(c) == c \in {" ", "\t", "\n"}

\* decimal digits of a natural number
RECURSIVE NatToString(_)
NatToString(i) ==
    IF i < 10 THEN <<DigitChars[i + 1]>>
    ELSE NatToString(i \div 10) \o <<DigitChars[(i % 10) + 1]>>

\* String(v) for a number: Number::toString
NumberToString(v) ==
    CASE v.k = "nan" -> <<"N", "a", "N">>
      [] v.k = "inf" -> <<"I", "n", "f", "i", "n", "i", "t", "y">>
      [] v.k = "ninf" -> <<"-", "I", "n", "f", "i", "n", "i", "t", "y">>
      [] OTHER ->
           (IF v.n < 0 THEN <<"-">> ELSE <<>>)
           \o NatToString(Abs(v.n) \div 2)
           \o (IF v.n % 2 = 0 THEN <<>> ELSE <<".", "5">>)

\* String(v): ToString of any value of the model
ToString(v) ==
    CASE v.t = "number" -> NumberToString(v)
      [] v.t = "string" -> v.s
      [] v.t = "undefined" ->
           <<"u", "n", "d", "e", "f", "i", "n", "e", "d">>
      [] v.t = "null" -> <<"n", "u", "l", "l">>
      [] OTHER -> <<"[", "o", "b", "j", "e", "c", "t", "]">>

RECURSIVE TrimStart(_)
TrimStart(cs) ==
    IF cs # <<>> /\ IsWhiteSpace(Head(cs)) THEN TrimStart(Tail(cs)) ELSE cs
RECURSIVE TrimEnd(_)
TrimEnd(cs) ==
    IF cs # <<>> /\ IsWhiteSpace(cs[Len(cs)])
    THEN TrimEnd(SubSeq(cs, 1, Len(cs) - 1)) ELSE cs
\* String.prototype.trim
Trim(cs) == TrimEnd(TrimStart(cs))

LowerChar(c) ==
    CASE c = "B" -> "b" [] c = "U" -> "u" [] c = "L" -> "l" [] c = "K" -> "k"
      [] c = "X" -> "x" [] c = "N" -> "n" [] c = "I" -> "i"
      [] OTHER -> c
\* String.prototype.toLowerCase
ToLowerCase(cs) == [i \in 1..Len(cs) |-> LowerChar(cs[i])]

\* value of the longest prefix of decimal digits, acc the value so far
RECURSIVE DigitPrefix(_, _, _)
DigitPrefix(cs, acc, seen) ==
    IF cs # <<>> /\ IsDigit(Head(cs))
    THEN DigitPrefix(Tail(cs), 10 * acc + DigitValue(Head(cs)), TRUE)
    ELSE [value |-> acc, seen |-> seen]

\* parseInt(cs, 10): leading white space, an optional sign, then digits up
\* to the first character that is no digit; NaN when there is no digit
SignedNumber(negative, p) ==
    IF ~p.seen THEN NaN
    ELSE IF negative THEN Number(-p.value) ELSE Number(p.value)
ParseSigned(t) ==
    IF t # <<>> /\ Head(t) \in {"-", "+"}
    THEN SignedNumber(Head(t) = "-", DigitPrefix(Tail(t), 0, FALSE))
    ELSE SignedNumber(FALSE, DigitPrefix(t, 0, FALSE))
ParseInt(cs) == ParseSigned(TrimStart(cs))

BulkToken == <<"b", "u", "l", "k">>

\* the inner function resolveTargetMemberIndex of sendDataToParent:
\* null (absent), an integer number or the string 'bulk'
\* (variant: the result of parseInt is returned as it is)
NullIfNaNKept(numeric) == numeric
\* Number.isNaN(numeric) ? null : numeric
NullIfNaN(numeric) == IF IsNaN(numeric) THEN Null ELSE numeric
\* (variant: the bulk token is compared without lower-casing)
ResolveTrimmedCaseSensitive(trimmed) ==
    IF trimmed = <<>> THEN Null
    ELSE IF trimmed = BulkToken THEN Str(BulkToken)
    ELSE NullIfNaN(ParseInt(trimmed))
\* the string branch, after  const trimmed = value.trim()
ResolveTrimmed(trimmed) ==
    IF trimmed = <<>> THEN Null
    ELSE IF ToLowerCase(trimmed) = BulkToken THEN Str(BulkToken)
    ELSE NullIfNaN(ParseInt(trimmed))
ResolveTargetMemberIndex(value) ==
    CASE value.t = "undefined" \/ value.t = "null" -> Null
      [] value.t = "number" ->
           IF IsFinite(value) THEN MathTrunc(value) ELSE Null
      [] value.t = "string" -> ResolveTrimmed(Trim(value.s))
      [] OTHER -> Null

\* ---------------------------------------------------- URLSearchParams
\* The parameter names and the default values are written as one piece
\* each: they hold no character the serializer escapes, and nothing reads
\* inside them.
TargetMemberKey == <<"targetMember">>
MaterialKey == <<"material">>
EValueKey == <<"eValue">>
StrengthValueKey == <<"strengthValue">>
DefaultMaterial == <<"steel">>
DefaultEValue == <<"205000">>
DefaultStrengthValue == <<"235">>

\* application/x-www-form-urlencoded byte serializer, one character
EncodeChar(c) ==
    CASE c = " " -> <<"+">>
      [] c = "&" -> <<"%", "2", "6">>
      [] c = "=" -> <<"%", "3", "D">>
      [] c = "+" -> <<"%", "2", "B">>
      [] c = "%" -> <<"%", "2", "5">>
      [] c = "?" -> <<"%", "3", "F">>
      [] OTHER -> <<c>>
RECURSIVE Encode(_)
Encode(cs) ==
    IF cs = <<>> THEN <<>> ELSE EncodeChar(Head(cs)) \o Encode(Tail(cs))

\* the percent escapes of the serializer and the characters they stand for
Escapes ==
    { <<"2", "6", "&">>, <<"3", "D", "=">>, <<"2", "B", "+">>,
      <<"2", "5", "%">>, <<"3", "F", "?">> }
IsEscape(a, b) == \E e \in Escapes : e[1] = a /\ e[2] = b
Unescape(a, b) == (CHOOSE e \in Escapes : e[1] = a /\ e[2] = b)[3]
\* application/x-www-form-urlencoded decoding: '+' is a space, %XX a byte
RECURSIVE Decode(_)
Decode(cs) ==
    IF cs = <<>> THEN <<>>
    ELSE IF Head(cs) = "+" THEN <<" ">> \o Decode(Tail(cs))
    ELSE IF Head(cs) = "%" /\ Len(cs) >= 3 /\ IsEscape(cs[2], cs[3])
         THEN <<Unescape(cs[2], cs[3])>> \o Decode(SubSeq(cs, 4, Len(cs)))
    ELSE <<Head(cs)>> \o Decode(Tail(cs))

\* URLSearchParams.prototype.toString over a list of <<name, value>> pairs
RECURSIVE SerializeParams(_)
SerializeParams(pairs) ==
    IF pairs = <<>> THEN <<>>
    ELSE Encode(Head(pairs)[1]) \o <<"=">> \o Encode(Head(pairs)[2])
         \o (IF Len(pairs) > 1 THEN <<"&">> ELSE <<>>)
         \o SerializeParams(Tail(pairs))

\* index of the first c in cs, 0 when there is none
RECURSIVE IndexOf(_, _, _)
IndexOf(cs, c, from) ==
    IF from > Len(cs) THEN 0
    ELSE IF cs[from] = c THEN from ELSE IndexOf(cs, c, from + 1)

\* new URLSearchParams(search): the <<name, value>> pairs of a query string
\* cs before position at (all of cs when at is 0), and after it
Before(cs, at) == IF at = 0 THEN cs ELSE SubSeq(cs, 1, at - 1)
After(cs, at) == IF at = 0 THEN <<>> ELSE SubSeq(cs, at + 1, Len(cs))
\* one name=value piece, split at its first '='
SplitPair(piece, eq) == <<Decode(Before(piece, eq)), Decode(After(piece, eq))>>
ParsePair(piece) ==
    IF piece = <<>> THEN <<>> ELSE <<SplitPair(piece, IndexOf(piece, "=", 1))>>
\* the pieces between the '&' separators; empty pieces are skipped
RECURSIVE ParsePairs(_)
SplitPairs(cs, amp) == ParsePair(Before(cs, amp)) \o ParsePairs(After(cs, amp))
ParsePairs(cs) ==
    IF cs = <<>> THEN <<>> ELSE SplitPairs(cs, IndexOf(cs, "&", 1))
URLSearchParams(search) ==
    ParsePairs(IF search # <<>> /\ Head(search) = "?"
               THEN Tail(search) ELSE search)

\* URLSearchParams.prototype.get: the first value of the name, or null
RECURSIVE ParamsGet(_, _)
ParamsGet(pairs, name) ==
    IF pairs = <<>> THEN Null
    ELSE IF Head(pairs)[1] = name THEN Str(Head(pairs)[2])
    ELSE ParamsGet(Tail(pairs), name)

\* ------------------------------------------------------------ errors
\* An Error is identified by the failure it reports; keys are the names
\* its message lists (missingProps.join(', ')).
Error(kind) == [kind |-> kind, keys |-> <<>>]
NoError == Error("none")
InvalidArgument == Error("InvalidArgument")
WindowCreationBlocked == Error("WindowCreationBlocked")
InvalidPayload == Error("InvalidPayload")
MissingRequiredFields(missing) ==
    [kind |-> "MissingRequiredFields", keys |-> missing]
UnresolvedTarget == Error("UnresolvedTarget")
InvalidTargetType == Error("InvalidTargetType")
\* errors the runtime raises
TypeError == Error("TypeError")
QuotaExceededError == Error("QuotaExceededError")
CloseError == Error("CloseError")

\* ------------------------------------------------- openSteelSelector
\* currentProps is [t, material, E, strengthValue]; t is "undefined" (the
\* argument is omitted and defaults to {}), "null" or "object"
CurrentProps(material, e, strengthValue) ==
    [t |-> "object", material |-> material, E |-> e,
     strengthValue |-> strengthValue]
OmittedProps ==
    [t |-> "undefined", material |-> Undefined, E |-> Undefined,
     strengthValue |-> Undefined]
NullProps ==
    [t |-> "null", material |-> Undefined, E |-> Undefined,
     strengthValue |-> Undefined]

\* x || d  followed by the string conversion URLSearchParams applies
OrDefault(x, d) == IF Truthy(x) THEN ToString(x) ELSE d

\* the query string built from memberIndex and currentProps
SelectorParams(memberIndex, currentProps) ==
    SerializeParams(<<
        <<TargetMemberKey, ToString(memberIndex)>>,
        <<MaterialKey, OrDefault(currentProps.material, DefaultMaterial)>>,
        <<EValueKey, OrDefault(currentProps.E, DefaultEValue)>>,
        <<StrengthValueKey,
          OrDefault(currentProps.strengthValue, DefaultStrengthValue)>> >>)

\* (variant: index 0 is rejected too)
InvalidMemberIndexPositive(memberIndex) ==
    ~IsNumber(memberIndex) \/ LessThanZero(memberIndex)
        \/ memberIndex = Number(0)
\* (variant: only the type is checked)
InvalidMemberIndexTypeOnly(memberIndex) == ~IsNumber(memberIndex)
\* the input check of openSteelSelector: TRUE when the index is rejected
InvalidMemberIndex(memberIndex) ==
    ~IsNumber(memberIndex) \/ LessThanZero(memberIndex)

\* (variant: the catch block shows no message)
OpenCatchSilent(error, opened) ==
    [ret |-> 0, alert |-> NoError, opened |-> opened, search |-> <<>>,
     scheduled |-> FALSE]
\* The catch block of openSteelSelector: alert and return null.
\* opened: window.open had been called before the throw.
OpenCatch(error, opened) ==
    [ret |-> 0, alert |-> error, opened |-> opened, search |-> <<>>,
     scheduled |-> FALSE]

\* openSteelSelector without its effects on the windows: granted is the
\* window that window.open returns, 0 when the browser refuses.
\* ret is the returned handle (0 for null), search the query of the URL
\* passed to window.open, scheduled whether setTimeout was called.
OpenSteelSelectorResult(memberIndex, currentProps, granted) ==
    IF InvalidMemberIndex(memberIndex)
    THEN OpenCatch(InvalidArgument, FALSE)
    ELSE IF currentProps.t = "null"
    THEN OpenCatch(TypeError, FALSE)
    ELSE LET search == <<"?">> \o SelectorParams(memberIndex, currentProps)
         IN  IF granted = 0
             THEN [OpenCatch(WindowCreationBlocked, TRUE)
                     EXCEPT !.search = search]
             ELSE [ret |-> granted, alert |-> NoError, opened |-> TRUE,
                   search |-> search, scheduled |-> TRUE]

\* -------------------------------------------------- sendDataToParent
\* The argument of sendDataToParent is [v, f]: v the value itself (for
\* an object PlainObject) and f its own properties, a function from
\* the names present to their values.
NoFields == [name \in {} |-> Undefined]
Primitive(v) == [v |-> v, f |-> NoFields]
Object(f) == [v |-> PlainObject, f |-> f]
\* properties[prop]
Prop(properties, prop) ==
    IF prop \in DOMAIN properties.f THEN properties.f[prop] ELSE Undefined

\* (variant: the null check is left out; typeof null is 'object')
InvalidPropertiesTypeOnly(properties) ==
    properties.v.t \notin {"object", "null"}
\* !properties || typeof properties !== 'object'
InvalidProperties(properties) ==
    ~Truthy(properties.v) \/ properties.v.t # "object"

RequiredProps == <<"I", "A">>
\* (variant: the empty string counts as present)
IsMissingNullish(value) == value.t = "undefined" \/ value.t = "null"
\* value === undefined || value === null || value === ''
IsMissing(value) ==
    value.t = "undefined" \/ value.t = "null" \/ value = Str(<<>>)
\* requiredProps.filter(...)
MissingProps(properties) ==
    SelectSeq(RequiredProps, LAMBDA prop : IsMissing(Prop(properties, prop)))

OverrideKey == "targetMemberIndex"
\* (variant: the override key is left in the properties)
SanitizedPropsAll(properties) == properties.f
\* const { targetMemberIndex: overrideTargetIndex, ...sanitizedProps }
SanitizedProps(properties) ==
    [name \in (DOMAIN properties.f) \ {OverrideKey} |-> properties.f[name]]

\* A read of sessionStorage or of the opener either throws or yields a
\* value; the inner try/catch leaves the index null when it throws.
Yields(value) == [threw |-> FALSE, value |-> value]
Throws == [threw |-> TRUE, value |-> Undefined]
ResolveRead(read) ==
    IF read.threw THEN Null ELSE ResolveTargetMemberIndex(read.value)

\* the fallback chain: override, URL parameter, session storage, opener
\* if (resolvedTargetMemberIndex === null) { ... next source ... }
OrElse(resolvedTargetMemberIndex, next) ==
    IF resolvedTargetMemberIndex = Null THEN next
    ELSE resolvedTargetMemberIndex
\* (variant: the URL parameter is consulted before the override)
ResolveChainUrlFirst(override, urlValue, session, opener) ==
    OrElse(ResolveTargetMemberIndex(urlValue),
      OrElse(ResolveTargetMemberIndex(override),
        OrElse(ResolveRead(session), ResolveRead(opener))))
ResolveChain(override, urlValue, session, opener) ==
    OrElse(ResolveTargetMemberIndex(override),
      OrElse(ResolveTargetMemberIndex(urlValue),
        OrElse(ResolveRead(session), ResolveRead(opener))))

\* the two consistency checks on dataToSend.targetMemberIndex
TargetTypeRejected(target) ==
    \/ IsNumber(target) /\ ~IsFinite(target)
    \/ ~IsNumber(target) /\ target # Str(BulkToken)

SchemaVersion == "1.0"
\* (variant: numbers are written as strings)
JsonValueAsText(v) == IF IsNumber(v) THEN Str(NumberToString(v)) ELSE v
\* JSON.stringify of a property value: non-finite numbers become null
JsonValue(v) == IF IsNumber(v) /\ ~IsFinite(v) THEN Null ELSE v
\* JSON.stringify throws a TypeError on a circular structure
StringifyThrows(props) ==
    \E name \in DOMAIN props : props[name] = CircularObject
\* JSON.stringify(dataToSend), as the document the text denotes:
\* properties whose value is undefined are left out
JsonStringify(target, props, now) ==
    [targetMemberIndex |-> JsonValue(target),
     properties |->
        [name \in {m \in DOMAIN props : props[m].t # "undefined"}
            |-> JsonValue(props[name])],
     timestamp |-> now,
     version |-> SchemaVersion]

\* What one call of sendDataToParent did: ret the returned value,
\* escaped whether an exception reached the caller, alert the error shown,
\* resolved the resolved index (null before resolution), item the
\* text handed to localStorage.setItem (<<>> when it was not called),
\* wrote whether setItem completed, closed whether the window closed.
Started ==
    [ret |-> FALSE, escaped |-> FALSE, alert |-> NoError, resolved |-> Null,
     item |-> <<>>, wrote |-> FALSE, closeCalled |-> FALSE, closed |-> FALSE]
\* (variant: the catch block rethrows)
SendCatchRethrow(error, sofar) == [sofar EXCEPT !.escaped = TRUE]
\* the catch block of sendDataToParent: alert and return false
SendCatch(error, sofar) == [sofar EXCEPT !.ret = FALSE, !.alert = error]

\* (variant: the window is closed before the record is written)
DeliverCloseFirst(resolved, sanitizedProps, item, setItemThrows, closing) ==
    IF TargetTypeRejected(resolved)
    THEN SendCatch(InvalidTargetType, [Started EXCEPT !.resolved = resolved])
    ELSE IF StringifyThrows(sanitizedProps)
    THEN SendCatch(TypeError, [Started EXCEPT !.resolved = resolved])
    ELSE IF closing = "throws"
    THEN SendCatch(CloseError,
                   [Started EXCEPT !.resolved = resolved,
                                   !.closeCalled = TRUE])
    ELSE IF setItemThrows
    THEN SendCatch(QuotaExceededError,
                   [Started EXCEPT !.resolved = resolved, !.item = item,
                                   !.closeCalled = TRUE,
                                   !.closed = (closing = "closed")])
    ELSE [Started EXCEPT !.resolved = resolved, !.item = item,
                         !.wrote = TRUE, !.closeCalled = TRUE,
                         !.ret = TRUE, !.closed = (closing = "closed")]
\* Lines 136-165: build dataToSend, check the index, serialize, write
\* and close. setItemThrows: localStorage.setItem throws; closing: what
\* window.close() does ("closed", "ignored", "throws").
Deliver(resolved, sanitizedProps, item, setItemThrows, closing) ==
    IF TargetTypeRejected(resolved)
    THEN SendCatch(InvalidTargetType, [Started EXCEPT !.resolved = resolved])
    ELSE IF StringifyThrows(sanitizedProps)
    THEN SendCatch(TypeError, [Started EXCEPT !.resolved = resolved])
    ELSE IF setItemThrows
    THEN SendCatch(QuotaExceededError,
                   [Started EXCEPT !.resolved = resolved, !.item = item])
    ELSE IF closing = "throws"
    THEN SendCatch(CloseError,
                   [Started EXCEPT !.resolved = resolved, !.item = item,
                                   !.wrote = TRUE, !.closeCalled = TRUE])
    ELSE [Started EXCEPT !.resolved = resolved, !.item = item,
                         !.wrote = TRUE, !.closeCalled = TRUE,
                         !.ret = TRUE, !.closed = (closing = "closed")]

\* Lines 132-134: no source yielded an index
Resolved(resolved, sanitizedProps, now, setItemThrows, closing) ==
    IF resolved = Null THEN SendCatch(UnresolvedTarget, Started)
    ELSE Deliver(resolved, sanitizedProps,
                 <<JsonStringify(resolved, sanitizedProps, now)>>,
                 setItemThrows, closing)

\* sendDataToParent without its effects on storage and window: search is
\* window.location.search, session and opener the reads of the fallback
\* sources, now the clock
SendDataToParentResult(properties, search, session, opener, now, setItemThrows, closing) ==
    IF InvalidProperties(properties) THEN SendCatch(InvalidPayload, Started)
    ELSE IF MissingProps(properties) # <<>>
    THEN SendCatch(MissingRequiredFields(MissingProps(properties)), Started)
    ELSE Resolved(ResolveChain(Prop(properties, OverrideKey),
                               ParamsGet(URLSearchParams(search),
                                         TargetMemberKey),
                               session, opener),
                  SanitizedProps(properties), now, setItemThrows, closing)

\* -------------------------------------------------------------- state
VARIABLES
    localStorage,   \* the item under 'steelSelectionForFrameAnalyzer':
                    \* <<>> when there is none, else <<document>>
    windows,        \* selector windows: [open, search (location.search)]
    timers,         \* pending liveness timers of openSteelSelector, by
                    \* the window they watch
    last            \* what the most recent step did and was given
vars == <<localStorage, windows, timers, last>>

\* the selector windows (handles); 0 stands for the null handle
Windows == {1, 2}
ClosedWindow == [open |-> FALSE, search |-> <<>>]
OpenWindow(search) == [open |-> TRUE, search |-> search]
NoStep == [op |-> "none"]

\* ------------------------------------------------------------ actions
\* The parent calls openSteelSelector(memberIndex, currentProps); the
\* browser answers window.open with the window granted, or with null (0).
OpenSteelSelector(memberIndex, currentProps, granted) ==
    \E r \in {OpenSteelSelectorResult(memberIndex, currentProps, granted)} :
        /\ granted # 0 => timers[granted] < MaxTimers
        /\ windows' = IF r.opened /\ granted # 0
                      THEN [windows EXCEPT ![granted] = OpenWindow(r.search)]
                      ELSE windows
        /\ timers' = IF r.scheduled
                     THEN [timers EXCEPT ![r.ret] = @ + 1] ELSE timers
        /\ last' = [op |-> "openSteelSelector", memberIndex |-> memberIndex,
                    currentProps |-> currentProps,
                    granted |-> IF r.opened THEN granted ELSE 0,
                    ret |-> r.ret,
                    alert |-> r.alert, opened |-> r.opened,
                    search |-> r.search, scheduled |-> r.scheduled]
        /\ UNCHANGED localStorage

\* The callback of setTimeout: warns when the window is closed by then.
LivenessCheck(w) ==
    /\ timers[w] > 0
    /\ timers' = [timers EXCEPT ![w] = @ - 1]
    /\ last' = [op |-> "livenessCheck", w |-> w, warned |-> ~windows[w].open]
    /\ UNCHANGED <<localStorage, windows>>

\* The user loads the selector page in window w with a typed URL.
LoadSelector(w, search) ==
    /\ windows' = [windows EXCEPT ![w] = OpenWindow(search)]
    /\ last' = [op |-> "loadSelector", w |-> w]
    /\ UNCHANGED <<localStorage, timers>>

\* The user closes window w.
UserClose(w) ==
    /\ windows[w].open
    /\ windows' = [windows EXCEPT ![w] = ClosedWindow]
    /\ last' = [op |-> "userClose", w |-> w]
    /\ UNCHANGED <<localStorage, timers>>

\* calls in a row, this one included and counted up to 2, that passed the
\* same argument to sendDataToParent in the same window
\* (variant: an unconsumed record is not overwritten)
SetItemIfEmpty(slot, r) == IF r.wrote /\ slot = <<>> THEN r.item ELSE slot
\* localStorage.setItem on the fixed key: the slot after the call that
\* produced r, the new record replacing whatever the slot held
SetItem(slot, r) == IF r.wrote THEN r.item ELSE slot

Streak(w, properties) ==
    IF /\ last.op = "sendDataToParent"
       /\ last.w = w
       /\ last.properties = properties
    THEN 2 ELSE 1

\* The page in window w calls sendDataToParent(properties).
SendDataToParent(w, properties, session, opener, now, setItemThrows, closing) ==
    \E r \in {SendDataToParentResult(properties, windows[w].search, session,
                                     opener, now, setItemThrows, closing)} :
        /\ windows[w].open
        /\ localStorage' = SetItem(localStorage, r)
        /\ windows' = IF r.closed
                      THEN [windows EXCEPT ![w] = ClosedWindow] ELSE windows
        /\ last' = [op |-> "sendDataToParent", w |-> w,
                    properties |-> properties,
                    search |-> windows[w].search,
                    session |-> session, opener |-> opener,
                    streak |-> Streak(w, properties),
                    ret |-> r.ret, escaped |-> r.escaped, alert |-> r.alert,
                    resolved |-> r.resolved, item |-> r.item,
                    wrote |-> r.wrote,
                    replaced |-> r.wrote /\ localStorage # <<>>,
                    closeCalled |-> r.closeCalled,
                    closed |-> r.closed]
        /\ UNCHANGED timers

\* ------------------------------------------------------------- inputs
Half == Halves(1)
ValidFields == [name \in {"I", "A"} |-> Half]
\* f with the named property set to v
WithProp(f, prop, v) ==
    [name \in (DOMAIN f) \cup {prop} |-> IF name = prop THEN v ELSE f[name]]
\* location.search of a window opened by openSteelSelector
SelectorSearch(memberIndex, currentProps) ==
    <<"?">> \o SelectorParams(memberIndex, currentProps)
\* location.search of a page loaded with only a targetMember parameter
TargetSearch(cs) == <<"?">> \o SerializeParams(<< <<TargetMemberKey, cs>> >>)

\* a record left in the slot by an earlier session
StaleItem == <<JsonStringify(Number(0), ValidFields, 0)>>
InitialStorage == {<<>>, StaleItem}
\* <<setItemThrows, closing>>: window.close() is reached only when
\* setItem returns
Endings ==
    {<<TRUE, "closed">>, <<FALSE, "closed">>, <<FALSE, "ignored">>,
     <<FALSE, "throws">>}
\* the fallback sources are read only by a call that passes validation
Validates(properties) ==
    ~InvalidProperties(properties) /\ MissingProps(properties) = <<>>
Unread == Yields(Undefined)

\* sendDataToParent in window w, its argument and its sources drawn from
\* the given sets
SendAny(w, payloads, sessions, openers) ==
    \E properties \in payloads :
        IF Validates(properties)
        THEN \E session \in sessions, opener \in openers, now \in 0..MaxTime,
                end \in Endings :
                SendDataToParent(w, properties, session, opener, now,
                                 end[1], end[2])
        ELSE SendDataToParent(w, properties, Unread, Unread, 0, FALSE,
                              "closed")

\* ------------------------------------------------- the system (Spec)
SystemIndices == {Number(1), Number(-1)}
SystemPayloads ==
    {Primitive(Null),
     Object(ValidFields),
     Object([name \in {"A"} |-> Half]),
     Object(WithProp(ValidFields, OverrideKey, Str(<<"B", "U", "L", "K">>)))}
SystemSessions == {Yields(Null)}
SystemOpeners == {Yields(Undefined)}

Init ==
    /\ localStorage \in InitialStorage
    /\ windows = [w \in Windows |-> ClosedWindow]
    /\ timers = [w \in Windows |-> 0]
    /\ last = NoStep

Next ==
    \/ \E memberIndex \in SystemIndices, granted \in Windows \cup {0} :
          OpenSteelSelector(memberIndex, OmittedProps, granted)
    \/ \E w \in Windows : LivenessCheck(w)
    \/ \E w \in Windows : LoadSelector(w, <<>>)
    \/ \E w \in Windows : UserClose(w)
    \/ \E w \in Windows :
          SendAny(w, SystemPayloads, SystemSessions, SystemOpeners)

Spec == Init /\ [][Next]_vars

\* ------------------------------- one call of sendDataToParent
\* values of the override field, of the session item and of the opener's
\* selectedMemberIndex
OverrideValues ==
    {Number(3), Halves(7), Halves(-7), NaN, Infinity, Null, Undefined,
     PlainObject,
     Str(<<"B", "U", "L", "K">>), Str(<<" ", "B", "u", "l", "k", "\t">>),
     Str(BulkToken), Str(<<"b", "u", "l", "k", "s">>),
     Str(<<"3">>), Str(<<" ", "-", "4", "x">>), Str(<<"x", "4">>),
     Str(<<>>), Str(<<" ", " ">>)}
FieldValues == {Undefined, Null, Str(<<>>), Half, Number(0), NaN}
\* the object {I: i, A: a}
Fields(i, a) == [name \in {"I", "A"} |-> IF name = "I" THEN i ELSE a]
ExtraValues == {NaN, Undefined, CircularObject, Str(<<"H">>)}
PublisherPayloads ==
    {Primitive(v) : v \in {Null, Undefined, Number(0), Number(1), Str(<<>>),
                           Str(<<"x">>)}}
    \cup {Object(NoFields), Object([name \in {"I"} |-> Half])}
    \cup {Object(Fields(i, a)) : i \in FieldValues, a \in FieldValues}
    \cup {Object(WithProp(Fields(i, a), OverrideKey, Number(3))) :
            i \in FieldValues, a \in FieldValues}
    \cup {Object(WithProp(ValidFields, OverrideKey, o)) : o \in OverrideValues}
    \cup {Object(WithProp(ValidFields, "Z", z)) : z \in ExtraValues}
    \cup {Object(WithProp(WithProp(ValidFields, "Z", z), OverrideKey,
                          Number(3))) : z \in ExtraValues}
PublisherSessions ==
    {Yields(Null), Yields(Str(<<"7">>)), Yields(Str(<<"n", "o">>)),
     Yields(Str(BulkToken)), Throws}
PublisherOpeners ==
    {Yields(Undefined), Yields(Number(9)), Yields(NaN),
     Yields(Str(<<"8">>)), Throws}
PublisherSearches ==
    {<<>>, TargetSearch(<<>>), TargetSearch(<<"B", "u", "l", "k">>),
     TargetSearch(<<"x">>), TargetSearch(<<"5">>),
     <<"?">> \o SerializeParams(<< <<MaterialKey, <<"5">> >> >>)}
    \cup {SelectorSearch(Number(i), OmittedProps) :
            i \in (0..MaxIndex) \cup {10 * MaxIndex}}
    \cup {SelectorSearch(Halves(2 * MaxIndex + 1), OmittedProps)}

InitPublisher ==
    /\ localStorage \in InitialStorage
    /\ \E search \in PublisherSearches :
          windows = [w \in Windows |-> IF w = 1 THEN OpenWindow(search)
                                       ELSE ClosedWindow]
    /\ timers = [w \in Windows |-> 0]
    /\ last = NoStep

NextPublisher ==
    /\ last.op = "none"
    /\ SendAny(1, PublisherPayloads, PublisherSessions, PublisherOpeners)

SpecPublisher == InitPublisher /\ [][NextPublisher]_vars

\* ------------------------------ one call of openSteelSelector
LauncherIndices ==
    {Number(i) : i \in (0..MaxIndex) \cup {10 * MaxIndex}}
    \cup {Number(-1), Halves(2 * MaxIndex + 1), Halves(1), Halves(-1), NaN,
          Infinity, NegInfinity, Str(BulkToken), Str(<<"1">>), Str(<<>>),
          Null, Undefined, PlainObject}
LauncherProps ==
    {OmittedProps, NullProps,
     CurrentProps(Undefined, Undefined, Undefined),
     CurrentProps(Str(<<"a", "&", "b", "=", "?">>), Number(0), Halves(5)),
     CurrentProps(Str(<<"&">> \o TargetMemberKey \o <<"=", "9">>),
                  Str(<<"2", "+", "1">>), Str(<<" ", "%">>))}

InitLauncher ==
    /\ localStorage \in InitialStorage
    /\ windows \in [Windows -> {ClosedWindow, OpenWindow(<<>>)}]
    /\ timers = [w \in Windows |-> 0]
    /\ last = NoStep

NextLauncher ==
    \/ /\ last.op = "none"
       /\ \E memberIndex \in LauncherIndices, currentProps \in LauncherProps,
             granted \in Windows \cup {0} :
             OpenSteelSelector(memberIndex, currentProps, granted)
    \/ \E w \in Windows : last.op = "openSteelSelector" /\ UserClose(w)
    \/ \E w \in Windows : LivenessCheck(w)

SpecLauncher == InitLauncher /\ [][NextLauncher]_vars

\* ------------------------------------------------------------- claims
IsSend == last.op = "sendDataToParent"
IsOpen == last.op = "openSteelSelector"
Override == Prop(last.properties, OverrideKey)
UrlValue == ParamsGet(URLSearchParams(last.search), TargetMemberKey)
\* the source yields a usable value
Usable(resolved) == resolved # Null

\* C1: in a call that reaches target resolution, the resolved index is the
\* value of the first usable source in the order override, URL parameter,
\* session fallback, opener; with override 3, URL 5 and session 7 it is
\* 3, without the override 5, and without override and URL 7.
C1_Priority ==
    IsSend /\ Validates(last.properties) =>
        /\ Usable(ResolveTargetMemberIndex(Override)) =>
              last.resolved = ResolveTargetMemberIndex(Override)
        /\ ~Usable(ResolveTargetMemberIndex(Override))
              /\ Usable(ResolveTargetMemberIndex(UrlValue)) =>
              last.resolved = ResolveTargetMemberIndex(UrlValue)
        /\ ~Usable(ResolveTargetMemberIndex(Override))
              /\ ~Usable(ResolveTargetMemberIndex(UrlValue))
              /\ Usable(ResolveRead(last.session)) =>
              last.resolved = ResolveRead(last.session)
        /\ ~Usable(ResolveTargetMemberIndex(Override))
              /\ ~Usable(ResolveTargetMemberIndex(UrlValue))
              /\ ~Usable(ResolveRead(last.session)) =>
              last.resolved = ResolveRead(last.opener)
        /\ Override = Number(3) => last.resolved = Number(3)
        /\ Override = Undefined /\ UrlValue = Str(<<"5">>) =>
              last.resolved = Number(5)
        /\ Override = Undefined /\ UrlValue = Null
              /\ last.session = Yields(Str(<<"7">>)) =>
              last.resolved = Number(7)
\* override 3, URL 5, session 7 and an opener index 9: the override wins
C1_Witness ==
    /\ IsSend /\ Validates(last.properties)
    /\ Override = Number(3)
    /\ UrlValue = Str(<<"5">>)
    /\ last.session = Yields(Str(<<"7">>))
    /\ last.opener = Yields(Number(9))
    /\ last.resolved = Number(3)

\* the argument is the object {I: i, A: a}: no other property, no override
IsPlainPair ==
    /\ IsSend
    /\ last.properties.v = PlainObject
    /\ DOMAIN last.properties.f = {"I", "A"}
\* the URL carries targetMember=n
UrlCarries(n) == UrlValue = Str(NatToString(n))
UrlNumbers == 0..(10 * MaxIndex)
\* the slot holds a record with this index and these values of I and A
SlotHolds(index, i, a) ==
    /\ Len(localStorage) = 1
    /\ localStorage[1].targetMemberIndex = index
    /\ DOMAIN localStorage[1].properties = {"I", "A"}
    /\ localStorage[1].properties["I"] = i
    /\ localStorage[1].properties["A"] = a
    /\ localStorage[1].version = "1.0"
\* the value is present and is one JSON keeps: a finite number or a string
Kept(v) == (IsFinite(v) \/ v.t = "string") /\ v # Str(<<>>)

\* C2 as stated: every publish of {I: i, A: a} under targetMember=n succeeds
\* and the slot then reads back n, i, a and version '1.0' (read for i and
\* a present finite numbers or strings).
C2_RoundTripAsStated ==
    \A n \in UrlNumbers :
        /\ IsPlainPair /\ UrlCarries(n)
        /\ Kept(last.properties.f["I"]) /\ Kept(last.properties.f["A"])
        =>  /\ last.ret
            /\ SlotHolds(Number(n), last.properties.f["I"],
                         last.properties.f["A"])
\* C2 amended: with i and a present finite numbers or strings, the call
\* fails only when localStorage.setItem or window.close() throws, returns
\* true otherwise, and whenever setItem did not throw the slot reads back
\* n, i, a and version '1.0'.
C2_RoundTrip ==
    \A n \in UrlNumbers :
        /\ IsPlainPair /\ UrlCarries(n)
        /\ Kept(last.properties.f["I"]) /\ Kept(last.properties.f["A"])
        => /\ last.alert \in {NoError, QuotaExceededError, CloseError}
           /\ last.ret <=> last.alert = NoError
           /\ last.alert # QuotaExceededError =>
                 SlotHolds(Number(n), last.properties.f["I"],
                           last.properties.f["A"])
\* {I: 0.5, A: 0} published under targetMember=20 and read back
C2_Witness ==
    /\ IsPlainPair /\ UrlCarries(10 * MaxIndex)
    /\ last.properties.f = Fields(Half, Number(0))
    /\ last.ret
    /\ SlotHolds(Number(10 * MaxIndex), Half, Number(0))

\* C3: no exception escapes sendDataToParent; a call that fails at any
\* step alerts the user and returns false, and a call returns true only
\* when validation, resolution, the write and the close all went through.
C3_NoEscape ==
    IsSend =>
        /\ ~last.escaped
        /\ last.ret <=> last.alert = NoError
        /\ last.ret =>
              /\ Validates(last.properties)
              /\ Usable(last.resolved)
              /\ last.wrote /\ last.closeCalled
              /\ localStorage = last.item
\* window.close() threw after the write: caught, alerted, false returned
C3_Witness ==
    /\ IsSend
    /\ last.alert = CloseError
    /\ ~last.ret /\ ~last.escaped

\* the required keys that are undefined, null or '' in the argument
MissingKeys ==
    {key \in {"I", "A"} :
        \/ key \notin DOMAIN last.properties.f
        \/ last.properties.f[key] \in {Undefined, Null, Str(<<>>)}}
Listed(keys) == {keys[i] : i \in 1..Len(keys)}
\* C4: an object argument with I or A missing fails with
\* MissingRequiredFields listing exactly the missing keys, each once;
\* the call returns false, hands nothing to storage and does not close.
C4_MissingFields ==
    IsSend /\ last.properties.v = PlainObject /\ MissingKeys # {} =>
        /\ last.alert.kind = "MissingRequiredFields"
        /\ Listed(last.alert.keys) = MissingKeys
        /\ Len(last.alert.keys) = Cardinality(MissingKeys)
        /\ ~last.ret
        /\ ~last.wrote /\ last.item = <<>>
        /\ localStorage \in InitialStorage
        /\ ~last.closeCalled /\ ~last.closed
        /\ windows[last.w].open
\* {I: '', A: 0.5}: only I is reported
C4_Witness ==
    /\ IsSend
    /\ last.properties = Object(Fields(Str(<<>>), Half))
    /\ last.alert = MissingRequiredFields(<<"I">>)
    /\ ~last.ret

\* a step that is a call of sendDataToParent(null)
PublishNullStep ==
    /\ last'.op = "sendDataToParent"
    /\ last'.properties = Primitive(Null)
\* C5: sendDataToParent(null) fails with InvalidPayload and returns false
\* without touching the slot; a second such call right after the first
\* fails the same way, so the slot after both is the slot before both.
C5_NullTwice ==
    [][PublishNullStep =>
          /\ ~last'.ret
          /\ last'.alert = InvalidPayload
          /\ ~last'.wrote
          /\ localStorage' = localStorage
          /\ last'.streak = 2 =>
                /\ last'.ret = last.ret
                /\ last'.alert = last.alert]_vars
\* the second of two calls with null in a row, over a slot that held a record
C5_Witness ==
    /\ IsSend
    /\ last.properties = Primitive(Null)
    /\ last.streak = 2
    /\ last.alert = InvalidPayload /\ ~last.ret
    /\ localStorage = StaleItem

\* the member index is a non-negative integer
NonNegativeInteger(v) == IsInteger(v) /\ v.n >= 0
\* C6: for a non-negative integer index the window is requested whenever
\* currentProps is an object, and when the browser grants it the call
\* returns its handle and the window's URL carries targetMember equal to
\* the index, which the selector page reads back as that index.
C6_OpenSucceeds ==
    IsOpen /\ NonNegativeInteger(last.memberIndex) =>
        /\ last.currentProps.t # "null" => last.opened
        /\ last.granted # 0 =>
              /\ last.ret = last.granted
              /\ last.alert = NoError
              /\ ParamsGet(URLSearchParams(last.search), TargetMemberKey)
                    = Str(NatToString(last.memberIndex.n \div 2))
              /\ ResolveTargetMemberIndex(
                    ParamsGet(URLSearchParams(last.search), TargetMemberKey))
                    = last.memberIndex
\* index 20 with a material that spells '&targetMember=9'
C6_Witness ==
    /\ IsOpen
    /\ last.memberIndex = Number(10 * MaxIndex)
    /\ last.currentProps.material = Str(<<"&">> \o TargetMemberKey \o <<"=", "9">>)
    /\ last.ret = 2
    /\ windows[2] = OpenWindow(last.search)
    /\ timers[2] = 1

\* the member index is negative or no number
NegativeOrNonNumeric(v) ==
    \/ v.t # "number"
    \/ v.k = "fin" /\ v.n < 0
    \/ v.k = "ninf"
\* C7: a negative or non-numeric index fails with InvalidArgument: null is
\* returned, window.open is not called and no timer is scheduled.
C7_OpenRejects ==
    IsOpen /\ NegativeOrNonNumeric(last.memberIndex) =>
        /\ last.ret = 0
        /\ last.alert = InvalidArgument
        /\ ~last.opened /\ last.granted = 0
        /\ ~last.scheduled
        /\ \A w \in Windows : timers[w] = 0
\* the bulk token as index, with the browser ready to grant a window
C7_Witness ==
    /\ IsOpen
    /\ last.memberIndex = Str(BulkToken)
    /\ last.ret = 0 /\ last.alert = InvalidArgument
    /\ ~last.opened

\* C8: an index of number type that is no integer (2.5, NaN) fails with
\* InvalidArgument and no window is created.
C8_OpenRejectsFractions ==
    IsOpen /\ IsNumber(last.memberIndex) /\ ~IsInteger(last.memberIndex) =>
        /\ last.ret = 0
        /\ last.alert = InvalidArgument
        /\ ~last.opened

\* the characters spell 'bulk' in some letter case between white space
SpellsBulk(cs) ==
    \E i \in 1..Len(cs) :
        /\ i + 3 <= Len(cs)
        /\ cs[i] \in {"b", "B"} /\ cs[i + 1] \in {"u", "U"}
        /\ cs[i + 2] \in {"l", "L"} /\ cs[i + 3] \in {"k", "K"}
        /\ \A j \in 1..Len(cs) : j < i \/ j > i + 3 => cs[j] \in {" ", "\t", "\n"}
\* C9: an override string spelling 'bulk' in any case and with any
\* surrounding white space resolves to 'bulk', whatever the URL, the
\* session fallback and the opener hold, and 'bulk' is what is stored.
C9_BulkOverride ==
    IsSend /\ Validates(last.properties)
           /\ Override.t = "string" /\ SpellsBulk(Override.s) =>
        /\ last.resolved = Str(BulkToken)
        /\ last.item # <<>> => last.item[1].targetMemberIndex = Str(BulkToken)
\* ' Bulk<tab>' over a numeric URL parameter, session item and opener index
C9_Witness ==
    /\ IsSend
    /\ Override = Str(<<" ", "B", "u", "l", "k", "\t">>)
    /\ UrlValue = Str(<<"5">>)
    /\ last.session = Yields(Str(<<"7">>))
    /\ last.opener = Yields(Number(9))
    /\ last.resolved = Str(BulkToken)
    /\ last.ret /\ localStorage = last.item

\* a step that is a call of sendDataToParent
PublishStep == last'.op = "sendDataToParent"
C11_Blocked ==
    /\ IsOpen /\ last.opened /\ last.granted = 0 =>
          /\ last.ret = 0
          /\ last.alert = WindowCreationBlocked
          /\ ~last.scheduled
          /\ \A w \in Windows : timers[w] = 0
    /\ IsOpen /\ NonNegativeInteger(last.memberIndex)
              /\ last.currentProps.t # "null" /\ last.ret = 0 =>
          last.opened /\ last.alert = WindowCreationBlocked
\* the browser refuses the window for index MaxIndex
C11_Witness ==
    /\ IsOpen
    /\ last.memberIndex = Number(MaxIndex)
    /\ last.opened /\ last.granted = 0
    /\ last.ret = 0
    /\ last.alert = WindowCreationBlocked
    /\ last.search = SelectorSearch(Number(MaxIndex), last.currentProps)

\* the steps of one call are taken in the order Validating,
\* ResolvingTarget, Serializing, Persisted, Closed: what a later step
\* leaves behind is there only when every earlier step has passed
InOrder(o) ==
    /\ o.closed => o.closeCalled
    /\ o.closeCalled => o.wrote
    /\ o.wrote => o.item # <<>>
    /\ o.item # <<>> => o.resolved # Null
    /\ o.resolved # Null => Validates(o.properties)
DecimalDigits == {"0", "1", "2", "3", "4", "5", "6", "7", "8", "9"}
\* after leading white space the characters begin with a decimal integer:
\* an optional sign and a digit
StartsInteger(cs) ==
    \E i \in 1..Len(cs) :
        /\ \A j \in 1..(i - 1) : cs[j] \in {" ", "\t", "\n"}
        /\ \/ cs[i] \in DecimalDigits
           \/ /\ cs[i] \in {"-", "+"}
              /\ i + 1 <= Len(cs)
              /\ cs[i + 1] \in DecimalDigits
\* a value no index can be taken from: absent, a non-finite number, a
\* string that neither spells 'bulk' nor begins with an integer (empty
\* and blank strings among them), or a value of another type
UnusableValue(v) ==
    CASE v.t = "number" -> v.k # "fin"
      [] v.t = "string" -> ~SpellsBulk(v.s) /\ ~StartsInteger(v.s)
      [] OTHER -> TRUE
\* a read of session storage or of the opener that threw or yielded an
\* unusable value
UnusableRead(read) == read.threw \/ UnusableValue(read.value)
\* C13: in a call that reaches target resolution an unusable source is
\* treated as absent: the resolved index is the one the chain yields with
\* that source absent; when all four sources are unusable the call fails
\* with UnresolvedTarget, returns false and writes nothing, and otherwise
\* an index is resolved.
C13_Unusable ==
    IsSend /\ Validates(last.properties) =>
        /\ UnusableValue(Override) =>
              last.resolved = ResolveChain(Undefined, UrlValue, last.session,
                                           last.opener)
        /\ UnusableValue(UrlValue) =>
              last.resolved = ResolveChain(Override, Null, last.session,
                                           last.opener)
        /\ UnusableRead(last.session) =>
              last.resolved = ResolveChain(Override, UrlValue, Yields(Null),
                                           last.opener)
        /\ UnusableRead(last.opener) =>
              last.resolved = ResolveChain(Override, UrlValue, last.session,
                                           Yields(Undefined))
        /\ IF /\ UnusableValue(Override) /\ UnusableValue(UrlValue)
              /\ UnusableRead(last.session) /\ UnusableRead(last.opener)
           THEN /\ last.resolved = Null
                /\ last.alert = UnresolvedTarget
                /\ ~last.ret /\ ~last.wrote /\ ~last.closed
           ELSE /\ last.resolved # Null
                /\ last.alert # UnresolvedTarget
\* an override that does not parse, an empty URL parameter, a session read
\* that throws and an opener index NaN: the call fails with
\* UnresolvedTarget
C13_Witness ==
    /\ IsSend
    /\ Override = Str(<<"x", "4">>)
    /\ UrlValue = Str(<<>>)
    /\ last.session = Throws
    /\ last.opener = Yields(NaN)
    /\ last.alert = UnresolvedTarget
    /\ ~last.ret /\ ~last.wrote
    /\ windows[last.w].open

\* the record in the slot after a call that wrote
Written == last.item[1]
\* the keys of the payload other than the override key
PayloadKeys == (DOMAIN last.properties.f) \ {"targetMemberIndex"}
\* index is an integer or 'bulk'; a finite numeric override is truncated
\* toward zero (numbers are counted in halves)
WellFormedIndex(index) ==
    /\ \/ index = Str(<<"b", "u", "l", "k">>)
       \/ index.t = "number" /\ index.k = "fin" /\ index.n % 2 = 0
    /\ Override.t = "number" /\ Override.k = "fin" =>
          /\ index.t = "number"
          /\ index.n * Override.n >= 0
          /\ index.n * index.n <= Override.n * Override.n
          /\ \E d \in {0, 1} : index.n + d = Override.n \/ index.n - d = Override.n
=============================================================================
